---- MODULE Spec2Model ----
(***************************************************************************)
(* Model of the GPU server (src/gpu-server/api.py): the asynchronous       *)
(* video-inference job engine (the job registry active_jobs guarded by     *)
(* job_lock, the background runner process_video_inference, the status,    *)
(* cancel and preview endpoints), the single-frame accessor                *)
(* get_video_frame, the model initialization endpoints, and the            *)
(* single-frame inference endpoints serialized by inference_lock.          *)
(***************************************************************************)
EXTENDS Integers, Sequences, FiniteSets, TLC

\* ------------------------------------------------------------------ bounds
\* Longest video (decodable frames) a job is submitted with.
MaxFrames == 11
\* Two jobs share a run only when both are SegFormer jobs on videos of at
\* most this many decodable frames with an exact container frame count;
\* longer videos, inexact frame counts and YOLO jobs are explored as the only
\* job of their run.
ShortFrames == 1

\* Job ids: md5 of path and time, fresh for every submission; they are handed
\* out in the order of JobOrder.
JobOrder == <<"j1", "j2">>
JobIds == {JobOrder[i] : i \in 1..Len(JobOrder)}

\* ------------------------------------------------------- program constants
preview_interval == 10
FallbackThreshold == 200
FallbackFrames == <<10, 30, 50, 100, 150, 200>>

ModelTypes == {"segformer", "yolo"}

\* A video file as the runner sees it: `frames` is the number of frames
\* cap.read() delivers before it first returns ret = False, `count` is what
\* the container reports as CAP_PROP_FRAME_COUNT (it may be off by one
\* either way, or 0), `opens` is cap.isOpened().
CountsOf(n) == {c \in {0, n - 1, n, n + 1} : c >= 0}
Videos ==
    UNION {{[frames |-> n, count |-> c, opens |-> TRUE] : c \in CountsOf(n)} :
              n \in 0..MaxFrames}
    \cup {[frames |-> 0, count |-> 0, opens |-> FALSE]}

VARIABLES
    active_jobs,   \* the registry: job id -> job record
    job_lock,      \* "free" or the id of the runner thread holding job_lock
    thread,        \* job id -> locals of its process_video_inference thread
    disk,          \* job id -> output_path/inference_results.json
    request,       \* input of a single-frame request (frame accessor runs)
    resp,          \* response produced by the last step, NoResp if the
                   \* step was not a request handler
    models,        \* the model globals: segformer_*, ai_initialized, yolo_*
    interactive    \* inference_lock, inference_stats and the single-frame
                   \* inference requests in flight

vars == <<active_jobs, job_lock, thread, disk, request, resp, models,
          interactive>>

Free == "free"
NoResp == [op |-> "none", job |-> "", code |-> 0, body |-> <<>>]
NoRequest == [stage |-> "none", total_frames |-> 0, decodable |-> {},
              frame_number |-> 0]
NoFile == [exists |-> FALSE, complete |-> FALSE, total_frames |-> 0,
           results |-> <<>>, temp |-> FALSE]

Known(j) == j \in DOMAIN active_jobs

Terminal == {"completed", "cancelled", "failed"}

\* progress is a Python float; it is kept as the exact fraction <<num, den>>.
Frac(n, d) == <<n, d>>
FracLeq(a, b) == a[1] * b[2] <= b[1] * a[2]
FracEq(a, b) == a[1] * b[2] = b[1] * a[2]

\* line 2476: progress = (frame_count / total_frames) * 100
Progress(frame_count, total_frames) == Frac(frame_count * 100, total_frames)

\* line 2355: should_generate_preview = (frame_count % preview_interval == 0)
ShouldGeneratePreview(frame_count) == frame_count % preview_interval = 0

\* Variant: the counter is incremented before the record is built.
FrameResultsAfterIncrement(frame_count) == frame_count + 1

\* lines 2433-2436, 2460-2463: the frame_number recorded for the frame that
\* is processed while the counter stands at frame_count.
FrameResults(frame_count) == frame_count

\* lines 2606-2614: the record run_video_inference registers.  latest_frame,
\* error, result_file and temp_video_path are keys the dict does not have
\* yet: <<>> and "" stand for the missing key (and for Python None).
NewJob == [status |-> "running", progress |-> Frac(0, 1), current_frame |-> 0,
           total_frames |-> 0, cancel_requested |-> FALSE,
           latest_frame |-> <<>>, error |-> "", result_file |-> "",
           temp_video_path |-> ""]

\* Locals of process_video_inference(job_id, video_path, output_path,
\* model_type) at thread start; job_id is filled in by the submission.  cap
\* is the video handle ("none", "open",
\* "released"), pos the number of frames cap.read() has delivered, overlay the
\* local of that name (<<>> while unbound, <<i>> once rendered from frame i),
\* exc the message of the exception on its way to the except clause.
NewThread(v, m) == [pc |-> "open", job_id |-> "", video |-> v, model_type |-> m,
                    cap |-> "none", pos |-> 0, total_frames |-> 0,
                    frame_count |-> 0, results |-> <<>>, overlay |-> <<>>,
                    exc |-> ""]

SetJob(j, rec) == [active_jobs EXCEPT ![j] = rec]
SetThread(j, rec) == [thread EXCEPT ![j] = rec]

\* lines 26-35: the model globals at import time.  A model, processor or
\* device is <<>> while None and <<g>> once assigned, g numbering the loader
\* run that created the object (device: "cuda" or "cpu").  loads counts the
\* loader runs.
NoModels == [ai_initialized |-> FALSE, segformer_model |-> <<>>,
             segformer_processor |-> <<>>, segformer_device |-> <<>>,
             yolo_initialized |-> FALSE, yolo_model |-> <<>>, loads |-> 0]

\* The globals of a server on which both loaders have run once with success.
LoadedModels == [ai_initialized |-> TRUE, segformer_model |-> <<1>>,
                 segformer_processor |-> <<1>>, segformer_device |-> <<"cuda">>,
                 yolo_initialized |-> TRUE, yolo_model |-> <<2>>, loads |-> 2]

\* lines 38-43: inference_lock and inference_stats at import time.  lock is
\* the number of the request thread holding inference_lock, 0 when free;
\* calls maps each single-frame inference request in flight to its position;
\* arrived counts the requests received so far.
NoInteractive == [lock |-> 0, total_requests |-> 0, active_requests |-> 0,
                  max_concurrent |-> 0, arrived |-> 0, calls |-> <<>>]

Init ==
    /\ active_jobs = <<>>
    /\ job_lock = Free
    /\ thread = <<>>
    /\ disk = [j \in JobIds |-> NoFile]
    /\ request = NoRequest
    /\ resp = NoResp
    /\ models = LoadedModels
    /\ interactive = NoInteractive

\* ------------------------------------------------- run_video_inference
\* Bound of the model, not of the program (see ShortFrames).
Short(v, m) ==
    /\ v.frames <= ShortFrames /\ v.count = v.frames /\ v.opens
    /\ m = "segformer"
LoadOK(v, m) ==
    \/ DOMAIN active_jobs = {}
    \/ /\ Short(v, m)
       /\ \A k \in DOMAIN thread : Short(thread[k].video, thread[k].model_type)

\* line 2602: job_id = md5(video_path + time)[:16], an id not in the registry.
FreshId == JobOrder[Cardinality(DOMAIN active_jobs) + 1]

\* POST /api/inference, lines 2599-2634: registers the job under job_lock,
\* creates the output directory and starts the runner thread (os.makedirs and
\* Thread.start are taken to succeed).
run_video_inference(j, v, m) ==
    /\ Cardinality(DOMAIN active_jobs) < Len(JobOrder)
    /\ j = FreshId
    /\ job_lock = Free
    /\ LoadOK(v, m)
    /\ active_jobs' = active_jobs @@ (j :> NewJob)
    /\ thread' = thread @@ (j :> [NewThread(v, m) EXCEPT !.job_id = j])
    /\ resp' = [op |-> "submit", job |-> j, code |-> 200,
                body |-> <<"Inference started">>]
    /\ UNCHANGED <<job_lock, disk, request, models, interactive>>

\* ------------------------------------------------ process_video_inference
AtPc(j, pc) == j \in DOMAIN thread /\ thread[j].pc = pc

\* The job_id argument of runner thread j.
job_id(j) == thread[j].job_id

\* lines 2303-2313: cv2.VideoCapture(video_path), isOpened, metadata reads.
OpenVideo(j) ==
    /\ AtPc(j, "open")
    /\ LET t == thread[j] IN
       thread' = SetThread(j,
           IF t.video.opens
           THEN [t EXCEPT !.pc = "meta", !.cap = "open",
                          !.total_frames = t.video.count]
           ELSE [t EXCEPT !.pc = "openfail"])
    /\ resp' = NoResp
    /\ UNCHANGED <<active_jobs, job_lock, disk, request, models, interactive>>

\* lines 2305-2308: with job_lock: status = 'failed'; error = ...; return
OpenFailed(j) ==
    /\ AtPc(j, "openfail")
    /\ job_lock = Free
    /\ job_lock' = j
    /\ active_jobs' = SetJob(job_id(j), [active_jobs[job_id(j)] EXCEPT !.status = "failed"])
    /\ thread' = SetThread(j, [thread[j] EXCEPT !.pc = "openfail2"])
    /\ resp' = NoResp
    /\ UNCHANGED <<disk, request, models, interactive>>

OpenFailed2(j) ==
    /\ AtPc(j, "openfail2")
    /\ job_lock = j
    /\ job_lock' = Free
    /\ active_jobs' = SetJob(job_id(j), [active_jobs[job_id(j)] EXCEPT
                                    !.error = "Failed to open video file"])
    /\ thread' = SetThread(j, [thread[j] EXCEPT !.pc = "done"])
    /\ resp' = NoResp
    /\ UNCHANGED <<disk, request, models, interactive>>

\* lines 2316-2319: with job_lock: total_frames, fps, latest_frame = None
RegisterMeta(j) ==
    /\ AtPc(j, "meta")
    /\ job_lock = Free
    /\ job_lock' = j
    /\ active_jobs' = SetJob(job_id(j), [active_jobs[job_id(j)] EXCEPT
                                    !.total_frames = thread[j].total_frames])
    /\ thread' = SetThread(j, [thread[j] EXCEPT !.pc = "meta2"])
    /\ resp' = NoResp
    /\ UNCHANGED <<disk, request, models, interactive>>

RegisterMeta2(j) ==
    /\ AtPc(j, "meta2")
    /\ job_lock = j
    /\ job_lock' = Free
    /\ active_jobs' = SetJob(job_id(j), [active_jobs[job_id(j)] EXCEPT !.latest_frame = <<>>])
    /\ thread' = SetThread(j, [thread[j] EXCEPT !.pc = "check"])
    /\ resp' = NoResp
    /\ UNCHANGED <<disk, request, models, interactive>>

\* lines 2341-2345: with job_lock: if cancel_requested: status = 'cancelled'
\* (then cap.release() and return, still inside the with block).
CheckCancel(j) ==
    /\ AtPc(j, "check")
    /\ job_lock = Free
    /\ IF active_jobs[job_id(j)].cancel_requested
       THEN /\ job_lock' = j
            /\ active_jobs' = SetJob(job_id(j), [active_jobs[job_id(j)] EXCEPT
                                            !.status = "cancelled"])
            /\ thread' = SetThread(j, [thread[j] EXCEPT !.pc = "cancel_release"])
       ELSE /\ job_lock' = Free
            /\ active_jobs' = active_jobs
            /\ thread' = SetThread(j, [thread[j] EXCEPT !.pc = "read"])
    /\ resp' = NoResp
    /\ UNCHANGED <<disk, request, models, interactive>>

\* lines 2344-2345: cap.release(); return (leaves the with block)
CancelRelease(j) ==
    /\ AtPc(j, "cancel_release")
    /\ job_lock = j
    /\ job_lock' = Free
    /\ thread' = SetThread(j, [thread[j] EXCEPT !.pc = "done",
                                                !.cap = "released"])
    /\ resp' = NoResp
    /\ UNCHANGED <<active_jobs, disk, request, models, interactive>>

\* lines 2347-2349: ret, frame = cap.read(); if not ret: break
ReadFrame(j) ==
    /\ AtPc(j, "read")
    /\ LET t == thread[j] IN
       thread' = SetThread(j,
           IF t.pos < t.video.frames
           THEN [t EXCEPT !.pc = "infer", !.pos = t.pos + 1]
           ELSE [t EXCEPT !.pc = "release"])
    /\ resp' = NoResp
    /\ UNCHANGED <<active_jobs, job_lock, disk, request, models, interactive>>

\* lines 2374-2375, 2466-2470: the local `overlay` after a frame has been
\* processed.  SegFormer renders it on every preview frame; YOLO assigns it
\* only inside `if result.boxes is not None and len(result.boxes) > 0`.
RenderOverlay(model_type, has_boxes, frame_count, overlay) ==
    IF ShouldGeneratePreview(frame_count) /\ (model_type = "segformer" \/ has_boxes)
    THEN <<frame_count>>
    ELSE overlay

\* lines 2352-2480: colour conversion, the model call, the frame's record,
\* results.append, frame_count += 1, the progress division and, on a preview
\* frame, cv2.imencode(overlay).  The model call may raise; the division
\* raises ZeroDivisionError when the container reported 0 frames; imencode
\* raises NameError when overlay was never assigned.
InferFrame(j, model_ok, has_boxes) ==
    /\ AtPc(j, "infer")
    /\ LET t == thread[j]
           ov == RenderOverlay(t.model_type, has_boxes, t.frame_count, t.overlay)
           t2 == [t EXCEPT !.overlay = ov,
                           !.results = Append(t.results, FrameResults(t.frame_count)),
                           !.frame_count = t.frame_count + 1]
       IN thread' = SetThread(j,
           IF ~model_ok
           THEN [t EXCEPT !.pc = "except", !.exc = "inference error"]
           ELSE IF t.total_frames = 0
           THEN [t2 EXCEPT !.pc = "except", !.exc = "division by zero"]
           ELSE IF ShouldGeneratePreview(t.frame_count) /\ ov = <<>>
           THEN [t2 EXCEPT !.pc = "except", !.exc = "name 'overlay' is not defined"]
           ELSE [t2 EXCEPT !.pc = "update"])
    /\ resp' = NoResp
    /\ UNCHANGED <<active_jobs, job_lock, disk, request, models, interactive>>

\* lines 2481-2482 / 2487-2488: with job_lock: current_frame = frame_count
UpdateProgress(j) ==
    /\ AtPc(j, "update")
    /\ job_lock = Free
    /\ job_lock' = j
    /\ active_jobs' = SetJob(job_id(j), [active_jobs[job_id(j)] EXCEPT
                                    !.current_frame = thread[j].frame_count])
    /\ thread' = SetThread(j, [thread[j] EXCEPT !.pc = "update2"])
    /\ resp' = NoResp
    /\ UNCHANGED <<disk, request, models, interactive>>

\* lines 2483-2484 / 2489: progress = progress and, on a preview frame,
\* latest_frame = encoded_frame.tobytes(); the with block ends.
UpdateProgress2(j) ==
    /\ AtPc(j, "update2")
    /\ job_lock = j
    /\ job_lock' = Free
    /\ LET t == thread[j]
           job == [active_jobs[job_id(j)] EXCEPT
                      !.progress = Progress(t.frame_count, t.total_frames)]
       IN active_jobs' = SetJob(job_id(j),
              IF ShouldGeneratePreview(t.frame_count - 1)
              THEN [job EXCEPT !.latest_frame = t.overlay]
              ELSE job)
    /\ thread' = SetThread(j, [thread[j] EXCEPT !.pc = "check"])
    /\ resp' = NoResp
    /\ UNCHANGED <<disk, request, models, interactive>>

\* line 2491: cap.release() after the loop
ReleaseVideo(j) ==
    /\ AtPc(j, "release")
    /\ thread' = SetThread(j, [thread[j] EXCEPT !.pc = "write",
                                                !.cap = "released"])
    /\ resp' = NoResp
    /\ UNCHANGED <<active_jobs, job_lock, disk, request, models, interactive>>

\* Variant: the runner goes on to the completed update without having
\* written the result document.
WriteResultsSkipped(j, outcome) ==
    /\ AtPc(j, "write")
    /\ thread' = SetThread(j, [thread[j] EXCEPT !.pc = "complete"])
    /\ resp' = NoResp
    /\ UNCHANGED <<active_jobs, job_lock, disk, request, models, interactive>>

\* lines 2494-2504: open(result_json_path, 'w') and json.dump.  open may
\* raise (nothing on disk), or json.dump may raise after open truncated or
\* created the file (an incomplete file is left).
WriteResults(j, outcome) ==
    /\ AtPc(j, "write")
    /\ LET t == thread[j] IN
       CASE outcome = "ok" ->
              /\ disk' = [disk EXCEPT ![job_id(j)] =
                     [@ EXCEPT !.exists = TRUE, !.complete = TRUE,
                               !.total_frames = t.frame_count,
                               !.results = t.results]]
              /\ thread' = SetThread(j, [t EXCEPT !.pc = "complete"])
         [] outcome = "open_failed" ->
              /\ disk' = disk
              /\ thread' = SetThread(j, [t EXCEPT !.pc = "except",
                                                  !.exc = "write error"])
         [] outcome = "dump_failed" ->
              /\ disk' = [disk EXCEPT ![job_id(j)] =
                     [@ EXCEPT !.exists = TRUE, !.complete = FALSE,
                               !.total_frames = 0, !.results = <<>>]]
              /\ thread' = SetThread(j, [t EXCEPT !.pc = "except",
                                                  !.exc = "write error"])
    /\ resp' = NoResp
    /\ UNCHANGED <<active_jobs, job_lock, request, models, interactive>>

\* lines 2507-2508: with job_lock: status = 'completed'
CompleteJob(j) ==
    /\ AtPc(j, "complete")
    /\ job_lock = Free
    /\ job_lock' = j
    /\ active_jobs' = SetJob(job_id(j), [active_jobs[job_id(j)] EXCEPT !.status = "completed"])
    /\ thread' = SetThread(j, [thread[j] EXCEPT !.pc = "complete2"])
    /\ resp' = NoResp
    /\ UNCHANGED <<disk, request, models, interactive>>

\* lines 2513-2519 and 2530-2535: the file named by the record's
\* temp_video_path key, if the key is set and the file exists, is removed
\* (os.remove is taken to succeed).
RemoveTempVideo(j) ==
    IF active_jobs[job_id(j)].temp_video_path # "" /\ disk[job_id(j)].temp
    THEN [disk EXCEPT ![job_id(j)].temp = FALSE]
    ELSE disk

\* lines 2509-2519: progress = 100; result_file = result_json_path; the
\* temporary video is removed; the with block ends.
CompleteJob2(j) ==
    /\ AtPc(j, "complete2")
    /\ job_lock = j
    /\ job_lock' = Free
    /\ active_jobs' = SetJob(job_id(j), [active_jobs[job_id(j)] EXCEPT
                                    !.progress = Frac(100, 1),
                                    !.result_file = "inference_results.json"])
    /\ thread' = SetThread(j, [thread[j] EXCEPT !.pc = "done"])
    /\ resp' = NoResp
    /\ disk' = RemoveTempVideo(j)
    /\ UNCHANGED <<request, models, interactive>>

\* lines 2521-2526: except Exception: with job_lock: status = 'failed'
FailJob(j) ==
    /\ AtPc(j, "except")
    /\ job_lock = Free
    /\ job_lock' = j
    /\ active_jobs' = SetJob(job_id(j), [active_jobs[job_id(j)] EXCEPT !.status = "failed"])
    /\ thread' = SetThread(j, [thread[j] EXCEPT !.pc = "except2"])
    /\ resp' = NoResp
    /\ UNCHANGED <<disk, request, models, interactive>>

\* lines 2527-2535: error = str(e); the temporary video is removed; the with
\* block ends.  The video handle is not released on this path.
FailJob2(j) ==
    /\ AtPc(j, "except2")
    /\ job_lock = j
    /\ job_lock' = Free
    /\ active_jobs' = SetJob(job_id(j), [active_jobs[job_id(j)] EXCEPT !.error = thread[j].exc])
    /\ thread' = SetThread(j, [thread[j] EXCEPT !.pc = "done"])
    /\ resp' = NoResp
    /\ disk' = RemoveTempVideo(j)
    /\ UNCHANGED <<request, models, interactive>>

RunnerStep(j) ==
    \/ OpenVideo(j) \/ OpenFailed(j) \/ OpenFailed2(j)
    \/ RegisterMeta(j) \/ RegisterMeta2(j)
    \/ CheckCancel(j) \/ CancelRelease(j)
    \/ ReadFrame(j)
    \/ \E model_ok \in BOOLEAN, has_boxes \in BOOLEAN :
          InferFrame(j, model_ok, has_boxes)
    \/ UpdateProgress(j) \/ UpdateProgress2(j)
    \/ ReleaseVideo(j)
    \/ \E outcome \in {"ok", "open_failed", "dump_failed"} :
          WriteResults(j, outcome)
    \/ CompleteJob(j) \/ CompleteJob2(j)
    \/ FailJob(j) \/ FailJob2(j)

\* ------------------------------------------------------------- endpoints
\* lines 1618-1628: the fields a status poll returns.
Snapshot(job) == [status |-> job.status, progress |-> job.progress,
                  current_frame |-> job.current_frame,
                  total_frames |-> job.total_frames]

\* Variant: the status handler reads the record without taking job_lock.
StatusWithoutLock == TRUE

\* line 1611: `with job_lock:` of the status handler; it runs only while no
\* runner is inside a job_lock block.
StatusLockAcquired == job_lock = Free

\* GET /api/inference/status/<job_id>, lines 1608-1628, all under job_lock.
get_inference_status(j) ==
    /\ StatusLockAcquired
    /\ resp' = IF Known(j)
               THEN [op |-> "status", job |-> j, code |-> 200,
                     body |-> <<Snapshot(active_jobs[j])>>]
               ELSE [op |-> "status", job |-> j, code |-> 404,
                     body |-> <<"Job not found">>]
    /\ UNCHANGED <<active_jobs, job_lock, thread, disk, request, models, interactive>>

\* Variant: the cancel handler without its completed check.
CancelNeverRejected(job) == FALSE

\* line 1642: the only status a cancel request is refused for.
CancelRejected(job) == job.status = "completed"

\* POST /api/inference/cancel/<job_id>, lines 1631-1656, all under job_lock.
cancel_inference(j) ==
    /\ job_lock = Free
    /\ IF ~Known(j)
       THEN /\ resp' = [op |-> "cancel", job |-> j, code |-> 404,
                        body |-> <<"Job not found">>]
            /\ active_jobs' = active_jobs
       ELSE IF CancelRejected(active_jobs[j])
       THEN /\ resp' = [op |-> "cancel", job |-> j, code |-> 400,
                        body |-> <<"Job already completed">>]
            /\ active_jobs' = active_jobs
       ELSE /\ resp' = [op |-> "cancel", job |-> j, code |-> 200,
                        body |-> <<"Cancel request sent">>]
            /\ active_jobs' = SetJob(j, [active_jobs[j] EXCEPT
                                            !.cancel_requested = TRUE,
                                            !.status = "cancelling"])
    /\ UNCHANGED <<job_lock, thread, disk, request, models, interactive>>

\* Variant: the preview handler without its `not latest_frame` check.
PreviewAlwaysAvailable(job) == TRUE

\* lines 1670-1672: latest_frame = job.get('latest_frame'); `not latest_frame`
PreviewAvailable(job) == job.latest_frame # <<>>

\* GET /api/inference/preview/<job_id>, lines 1659-1689; latest_frame is read
\* under job_lock and sent after the lock is released.
get_inference_preview(j) ==
    /\ job_lock = Free
    /\ resp' = IF ~Known(j)
               THEN [op |-> "preview", job |-> j, code |-> 404,
                     body |-> <<"Job not found">>]
               ELSE IF ~PreviewAvailable(active_jobs[j])
               THEN [op |-> "preview", job |-> j, code |-> 404,
                     body |-> <<"No preview frame available yet">>]
               ELSE [op |-> "preview", job |-> j, code |-> 200,
                     body |-> active_jobs[j].latest_frame]
    /\ UNCHANGED <<active_jobs, job_lock, thread, disk, request, models, interactive>>

Next ==
    \/ \E j \in JobIds, v \in Videos, m \in ModelTypes :
          run_video_inference(j, v, m)
    \/ \E j \in JobIds : RunnerStep(j)
    \/ \E j \in JobIds : get_inference_status(j)
    \/ \E j \in JobIds : cancel_inference(j)
    \/ \E j \in JobIds : get_inference_preview(j)

Spec == Init /\ [][Next]_vars

\* ------------------------------------------------------- job id collision
\* The key of the next runner thread.
FreshThread == JobOrder[Cardinality(DOMAIN thread) + 1]

\* POST /api/inference, lines 2599-2634, when the id of line 2602 is one the
\* registry already holds: a second request for the same video_path served
\* at the same time.time() value.  Line 2606 assigns the key again and line
\* 2620 starts a second runner thread t for it.
run_video_inference_same_id(t, j, m) ==
    /\ Cardinality(DOMAIN thread) < Len(JobOrder)
    /\ t = FreshThread
    /\ j \in DOMAIN active_jobs
    /\ job_lock = Free
    /\ \E k \in DOMAIN thread :
          /\ thread[k].job_id = j
          /\ Short(thread[k].video, m)
          /\ thread' = thread @@
                 (t :> [NewThread(thread[k].video, m) EXCEPT !.job_id = j])
    /\ active_jobs' = [active_jobs EXCEPT ![j] = NewJob]
    /\ resp' = [op |-> "submit", job |-> j, code |-> 200,
                body |-> <<"Inference started">>]
    /\ UNCHANGED <<job_lock, disk, request, models, interactive>>

NextCollision ==
    \/ \E j \in JobIds, v \in Videos, m \in ModelTypes :
          /\ DOMAIN active_jobs = {}
          /\ (Short(v, m) \/ ~v.opens)
          /\ run_video_inference(j, v, m)
    \/ \E t \in JobIds, j \in JobIds, m \in ModelTypes :
          run_video_inference_same_id(t, j, m)
    \/ \E j \in JobIds : RunnerStep(j)
    \/ \E j \in JobIds : get_inference_status(j)
    \/ \E j \in JobIds : cancel_inference(j)
    \/ \E j \in JobIds : get_inference_preview(j)

CollisionSpec == Init /\ [][NextCollision]_vars

\* ------------------------------------------------- temporary input video
\* Specification section 4.4, step 5: a job may have a temporary input
\* artifact created solely for it (a transcoded staging copy).  The
\* submission registers its path under temp_video_path, the key the runner
\* reads at lines 2513 and 2530.
run_video_inference_staged(j, v, m) ==
    /\ DOMAIN active_jobs = {}
    /\ j = FreshId
    /\ job_lock = Free
    /\ active_jobs' = (j :> [NewJob EXCEPT !.temp_video_path = "staged"])
    /\ thread' = (j :> [NewThread(v, m) EXCEPT !.job_id = j])
    /\ disk' = [disk EXCEPT ![j].temp = TRUE]
    /\ resp' = [op |-> "submit", job |-> j, code |-> 200,
                body |-> <<"Inference started">>]
    /\ UNCHANGED <<job_lock, request, models, interactive>>

NextStaged ==
    \/ \E j \in JobIds, v \in Videos, m \in ModelTypes :
          run_video_inference_staged(j, v, m)
    \/ \E j \in JobIds : RunnerStep(j)
    \/ \E j \in JobIds : get_inference_status(j)
    \/ \E j \in JobIds : cancel_inference(j)
    \/ \E j \in JobIds : get_inference_preview(j)

StagedSpec == Init /\ [][NextStaged]_vars

\* -------------------------------------------------------- get_video_frame
\* Inputs of the single-frame requests explored: how far the handler gets
\* before the video is open (stage), the container's CAP_PROP_FRAME_COUNT,
\* the requested frame and the set of frame indices at which
\* cap.set(CAP_PROP_POS_FRAMES, i); cap.read() delivers a frame.
FrameStages == {"no_project_dir", "no_project", "no_video", "no_file",
                "not_opened", "opened"}
FrameCounts == {0, 1, 11, 200, 201, 300}
FrameNumbers == {-1, 0, 1, 10, 11, 150, 199, 200, 201, 300}
FallbackSet == {FallbackFrames[k] : k \in 1..Len(FallbackFrames)}
FrameRequests ==
    {[stage |-> st, total_frames |-> 0, decodable |-> {}, frame_number |-> 0] :
        st \in FrameStages \ {"opened"}}
    \cup UNION {[stage : {"opened"}, total_frames : FrameCounts,
                 decodable : SUBSET (FallbackSet \cup {n}), frame_number : {n}] :
                   n \in FrameNumbers}

\* Variant: the upper bound of the range check off by one.
OutOfRangeOffByOne(frame_number, total_frames) ==
    frame_number < 0 \/ frame_number > total_frames

\* line 492: if frame_number < 0 or frame_number >= total_frames
OutOfRange(frame_number, total_frames) ==
    frame_number < 0 \/ frame_number >= total_frames

\* Variant: the fallback threshold compared with <=.
FallbackAllowedInclusive(frame_number) == frame_number <= FallbackThreshold

\* line 505: if frame_number < 200
FallbackAllowed(frame_number) == frame_number < FallbackThreshold

\* lines 508-513: the for loop over the fallback frames from position k on;
\* the sequence of indices it seeks to, ending with the first that decodes.
RECURSIVE FallbackTried(_, _)
FallbackTried(decodable, k) ==
    IF k > Len(FallbackFrames) THEN <<>>
    ELSE IF FallbackFrames[k] \in decodable THEN <<FallbackFrames[k]>>
    ELSE <<FallbackFrames[k]>> \o FallbackTried(decodable, k + 1)

FrameFailure(code, error, opened) ==
    [code |-> code, error |-> error, frame |-> <<>>, seeks |-> <<>>,
     opened |-> opened, released |-> FALSE]

\* lines 441-539: the handler as a function of its input.  The result holds
\* the HTTP status, the error (if any), the index of the frame whose image is
\* returned (<<i>>), the indices sought in order, and whether the video
\* handle was opened and released.
GetVideoFrame(req) ==
    CASE req.stage = "no_project_dir" ->
           FrameFailure(400, "project_dir parameter required", FALSE)
      [] req.stage = "no_project" -> FrameFailure(404, "Project not found", FALSE)
      [] req.stage = "no_video" -> FrameFailure(404, "Video not found", FALSE)
      [] req.stage = "no_file" -> FrameFailure(404, "Video file not found", FALSE)
      [] req.stage = "not_opened" -> FrameFailure(500, "Failed to open video", FALSE)
      [] OTHER ->
           IF OutOfRange(req.frame_number, req.total_frames)
           THEN [FrameFailure(400, "out of range", TRUE) EXCEPT !.released = TRUE]
           ELSE LET first == req.frame_number \in req.decodable
                    tried == IF ~first /\ FallbackAllowed(req.frame_number)
                             THEN FallbackTried(req.decodable, 1)
                             ELSE <<>>
                    seeks == <<req.frame_number>> \o tried
                    last == seeks[Len(seeks)]
                IN IF last \in req.decodable
                   THEN [code |-> 200, error |-> "", frame |-> <<last>>,
                         seeks |-> seeks, opened |-> TRUE, released |-> TRUE]
                   ELSE [code |-> 400, error |-> "Failed to read frame",
                         frame |-> <<>>, seeks |-> seeks, opened |-> TRUE,
                         released |-> TRUE]

\* GET /api/projects/<p>/videos/<v>/frame/<n>: one request, handled once.
get_video_frame ==
    /\ request \in FrameRequests
    /\ resp' = [op |-> "frame", job |-> "", code |-> GetVideoFrame(request).code,
                body |-> <<GetVideoFrame(request)>>]
    /\ UNCHANGED <<active_jobs, job_lock, thread, disk, request, models, interactive>>

InitFrame ==
    /\ active_jobs = <<>>
    /\ job_lock = Free
    /\ thread = <<>>
    /\ disk = [j \in JobIds |-> NoFile]
    /\ request \in FrameRequests
    /\ resp = NoResp
    /\ models = LoadedModels
    /\ interactive = NoInteractive

NextFrame == get_video_frame

FrameSpec == InitFrame /\ [][NextFrame]_vars

\* ------------------------------------------------------ model initialization
\* The number of loader runs explored.
MaxLoads == 3

Devices == {"cuda", "cpu"}

\* The steps at which load_ai_model can raise: the transformers import or
\* the checkpoint read (line 626, 641), from_pretrained (line 653), and
\* .to(device) (line 681).
AiLoadOutcomes == {"ok", "import_error", "model_error", "device_error"}

\* lines 607-694: load_ai_model.  The device is assigned first (line 616 or
\* 621), then the processor (line 650), then the model (line 653), then the
\* flag (line 684); an exception leaves what was assigned so far and makes
\* the loader return False.  cuda is what torch.cuda.is_available() selects.
load_ai_model(m, outcome, cuda) ==
    LET g == m.loads + 1
        m1 == [m EXCEPT !.loads = g, !.segformer_device = <<cuda>>]
        m2 == [m1 EXCEPT !.segformer_processor = <<g>>]
        m3 == [m2 EXCEPT !.segformer_model = <<g>>]
    IN  CASE outcome = "import_error" -> m1
          [] outcome = "model_error"  -> m2
          [] outcome = "device_error" -> m3
          [] OTHER -> [m3 EXCEPT !.ai_initialized = TRUE]

YoloLoadOutcomes == {"ok", "import_error", "model_error"}

\* lines 696-751: load_yolo_model.  The ultralytics import comes first (line
\* 701); the device is assigned only while it is None (line 706); then the
\* model (line 717, 732 or 739) and the flag (line 741).
load_yolo_model(m, outcome, cuda) ==
    LET g == m.loads + 1
        m0 == [m EXCEPT !.loads = g]
        m1 == IF m.segformer_device = <<>>
              THEN [m0 EXCEPT !.segformer_device = <<cuda>>] ELSE m0
    IN  CASE outcome = "import_error" -> m0
          [] outcome = "model_error"  -> m1
          [] OTHER -> [m1 EXCEPT !.yolo_model = <<g>>,
                                 !.yolo_initialized = TRUE]

\* str(segformer_device), line 791 and 800
DeviceStr(m) == IF m.segformer_device = <<>> THEN <<"None">>
                ELSE m.segformer_device

AiNeverInitialized == FALSE

\* line 787: if ai_initialized
AiAlreadyInitialized == models.ai_initialized

\* lines 782-806: POST /api/ai/initialize
initialize_ai(outcome, cuda) ==
    /\ IF AiAlreadyInitialized
       THEN /\ resp' = [op |-> "initialize_ai", job |-> "", code |-> 200,
                        body |-> <<"AI model already initialized">>
                                 \o DeviceStr(models)]
            /\ UNCHANGED models
       ELSE /\ models.loads < MaxLoads
            /\ models' = load_ai_model(models, outcome, cuda)
            /\ resp' = IF models'.ai_initialized
                       THEN [op |-> "initialize_ai", job |-> "", code |-> 200,
                             body |-> <<"AI model initialized">>
                                      \o DeviceStr(models')]
                       ELSE [op |-> "initialize_ai", job |-> "", code |-> 500,
                             body |-> <<"Failed to initialize AI model">>]
    /\ UNCHANGED <<active_jobs, job_lock, thread, disk, request, interactive>>

\* lines 754-779: POST /api/ai/initialize/yolo
initialize_yolo(outcome, cuda) ==
    /\ IF models.yolo_initialized
       THEN /\ resp' = [op |-> "initialize_yolo", job |-> "", code |-> 200,
                        body |-> <<"YOLO model already initialized">>]
            /\ UNCHANGED models
       ELSE /\ models.loads < MaxLoads
            /\ models' = load_yolo_model(models, outcome, cuda)
            /\ resp' = IF models'.yolo_initialized
                       THEN [op |-> "initialize_yolo", job |-> "",
                             code |-> 200,
                             body |-> <<"YOLO model initialized">>]
                       ELSE [op |-> "initialize_yolo", job |-> "",
                             code |-> 500,
                             body |-> <<"Failed to initialize YOLO model">>]
    /\ UNCHANGED <<active_jobs, job_lock, thread, disk, request, interactive>>

\* lines 2983-2996: the server loads SegFormer before it starts serving
\* (line 2990); the load may fail and the server still starts.
InitModels ==
    /\ active_jobs = <<>>
    /\ job_lock = Free
    /\ thread = <<>>
    /\ disk = [j \in JobIds |-> NoFile]
    /\ request = NoRequest
    /\ resp = NoResp
    /\ models \in {load_ai_model(NoModels, o, d) :
                       o \in AiLoadOutcomes, d \in Devices}
    /\ interactive = NoInteractive

NextModels ==
    \/ \E o \in AiLoadOutcomes, d \in Devices : initialize_ai(o, d)
    \/ \E o \in YoloLoadOutcomes, d \in Devices : initialize_yolo(o, d)

ModelsSpec == InitModels /\ [][NextModels]_vars

\* ------------------------------------- submission on a server still loading
\* lines 2552-2553 and 2562: the model a submission asks for is not there
ModelMissing(m) ==
    IF m = "yolo" THEN ~models.yolo_initialized \/ models.yolo_model = <<>>
    ELSE ~models.ai_initialized \/ models.segformer_model = <<>>

\* lines 2551-2566: the globals after the handler's model check.  A YOLO
\* submission that finds no YOLO model calls load_yolo_model itself (line
\* 2556); a SegFormer submission loads nothing.
ModelsAfterCheck(m, outcome, cuda) ==
    IF m = "yolo" /\ ModelMissing(m)
    THEN load_yolo_model(models, outcome, cuda) ELSE models

\* lines 2556-2560 and 2562-2566: the submission is turned away with 400
SubmissionRejected(m, outcome, cuda) ==
    IF m = "yolo"
    THEN ModelMissing(m)
         /\ ~ModelsAfterCheck(m, outcome, cuda).yolo_initialized
    ELSE ModelMissing(m)

\* POST /api/inference, lines 2538-2634, on a server whose models may not be
\* loaded: the model check of lines 2551-2566, then the registration of
\* lines 2599-2634 (the video path is given and the file exists).  One
\* submission is followed.
post_inference(j, v, m, outcome, cuda) ==
    /\ DOMAIN active_jobs = {}
    /\ j = FreshId
    /\ job_lock = Free
    /\ m = "yolo" /\ ModelMissing(m) => models.loads < MaxLoads
    /\ models' = ModelsAfterCheck(m, outcome, cuda)
    /\ IF SubmissionRejected(m, outcome, cuda)
       THEN /\ resp' = [op |-> "submit", job |-> "", code |-> 400,
                        body |-> IF m = "yolo"
                                 THEN <<"YOLO model not initialized">>
                                 ELSE <<"AI model not initialized">>]
            /\ UNCHANGED <<active_jobs, thread>>
       ELSE /\ active_jobs' = active_jobs @@ (j :> NewJob)
            /\ thread' = thread
                   @@ (j :> [NewThread(v, m) EXCEPT !.job_id = j])
            /\ resp' = [op |-> "submit", job |-> j, code |-> 200,
                        body |-> <<"Inference started">>]
    /\ UNCHANGED <<job_lock, disk, request, interactive>>

\* The videos submitted while the models are being loaded.
ShortVideos == {v \in Videos : v.frames <= ShortFrames}

NextLoading ==
    \/ \E o \in AiLoadOutcomes, d \in Devices : initialize_ai(o, d)
    \/ \E o \in YoloLoadOutcomes, d \in Devices : initialize_yolo(o, d)
    \/ \E j \in JobIds, v \in ShortVideos, m \in ModelTypes,
          o \in YoloLoadOutcomes, d \in Devices : post_inference(j, v, m, o, d)
    \/ \E j \in JobIds : RunnerStep(j)
    \/ \E j \in JobIds : get_inference_status(j)
    \/ \E j \in JobIds : cancel_inference(j)
    \/ \E j \in JobIds : get_inference_preview(j)

LoadingSpec == InitModels /\ [][NextLoading]_vars

\* ------------------------------------------- single-frame inference requests
\* The number of single-frame inference requests explored, and the largest
\* number of pixels of one class in a predicted crop mask.
MaxCalls == 3
MaxPixels == 2

\* lines 653-657 and 1185-1189: the model predicts classes 0 (background),
\* 1 (rust) and 2 (scale)
Classes == 0..2

\* line 1162: predicted, the class of every pixel of the crop, kept as the
\* number of pixels of each class.  A crop has at least one pixel (an empty
\* crop makes cv2.cvtColor raise at line 1151).
Masks == {m \in [Classes -> 0..MaxPixels] : m[0] + m[1] + m[2] > 0}

\* predicted.size, line 1197
MaskSize(mask) == mask[0] + mask[1] + mask[2]

\* line 1192: non_bg_counts, the classes other than 0 that np.unique reports
NonBackground(mask) == {k \in Classes \ {0} : mask[k] > 0}

\* line 1196: max(non_bg_counts, key=non_bg_counts.get).  np.unique returns
\* the classes in ascending order and max keeps the first largest one.
MaxNonBackground(mask) ==
    CHOOSE k \in NonBackground(mask) :
        \A o \in NonBackground(mask) :
            mask[o] < mask[k] \/ (mask[o] = mask[k] /\ k <= o)

\* lines 1185-1189 and 1198: class_names.get(dominant_class, ...)
ClassName(k) == CASE k = 0 -> "background" [] k = 1 -> "rust"
                  [] OTHER -> "scale"

\* predicted.max() + 1, line 1213
NumClasses(mask) ==
    1 + CHOOSE k \in Classes : mask[k] > 0 /\ \A o \in Classes :
                                   mask[o] > 0 => o <= k

\* lines 1179-1279: the detection part of the box-inference response.  The
\* ratio is the exact fraction <<count, size>>; the polygon is the outline of
\* the dominant class (lines 1243-1262), kept as the class it outlines, and
\* stays [] for class 0.
BoxDetection(mask) ==
    LET dominant_class == IF NonBackground(mask) # {}
                          THEN MaxNonBackground(mask) ELSE 0
        dominant_class_ratio == IF NonBackground(mask) # {}
                                THEN Frac(mask[dominant_class], MaskSize(mask))
                                ELSE Frac(1, 1)
    IN  [success |-> TRUE,
         polygon |-> IF dominant_class # 0 THEN <<dominant_class>> ELSE <<>>,
         num_classes |-> NumClasses(mask),
         dominant_class |-> dominant_class,
         dominant_class_name |-> ClassName(dominant_class),
         dominant_class_ratio |-> dominant_class_ratio]

\* The points at which a single-frame inference request ends: parameters
\* missing (400), project, video or file not found (404), capture not opened
\* (500), frame not read (400), an exception (500), or a prediction.
CallStages == {"missing", "not_found", "open_failed", "read_failed", "error",
               "ok"}

CallFailure(code, error) ==
    [code |-> code, body |-> [success |-> FALSE, error |-> error]]

\* lines 1080-1084 and 905-909: if not ai_initialized or segformer_model is
\* None
NotInitialized == ~models.ai_initialized \/ models.segformer_model = <<>>

\* lines 1075-1288 (_run_inference_on_box_internal) and 900-1057
\* (_run_inference_internal): the response of one request.  Every exception
\* is caught inside and answered with 500.
InferenceInternal(kind, stage, mask) ==
    CASE NotInitialized -> CallFailure(400, "AI model not initialized")
      [] stage = "missing" -> CallFailure(400, "Missing required parameters")
      [] stage = "not_found" -> CallFailure(404, "not found")
      [] stage = "open_failed" -> CallFailure(500, "Failed to open video")
      [] stage = "read_failed" -> CallFailure(400, "Failed to read frame")
      [] stage = "error" -> CallFailure(500, "exception")
      [] OTHER -> [code |-> 200,
                   body |-> IF kind = "inference_box" THEN BoxDetection(mask)
                            ELSE [success |-> TRUE]]

CallKinds == {"inference", "inference_box"}

NoMask == [k \in Classes |-> 0]

Calls == DOMAIN interactive.calls

CallAt(c, pc) == c \in Calls /\ interactive.calls[c].pc = pc

\* A request for /api/ai/inference or /api/ai/inference_box arrives and its
\* handler thread starts (app.run(threaded=True), line 2996).
CallArrives(kind) ==
    /\ interactive.arrived < MaxCalls
    /\ LET c == interactive.arrived + 1
       IN  interactive' =
               [interactive EXCEPT
                   !.arrived = c,
                   !.calls = [x \in Calls \cup {c} |->
                                 IF x = c
                                 THEN [kind |-> kind, pc |-> "lock",
                                       mask |-> NoMask,
                                       response |-> CallFailure(0, "")]
                                 ELSE interactive.calls[x]]]
    /\ resp' = NoResp
    /\ UNCHANGED <<active_jobs, job_lock, thread, disk, request, models>>

InferenceLockIgnored == TRUE

\* lines 890 and 1065: with inference_lock
InferenceLockAcquired == interactive.lock = 0

\* lines 890-893 and 1065-1068: the thread enters inference_lock and counts
\* itself in inference_stats.
CallEnters(c) ==
    /\ CallAt(c, "lock")
    /\ InferenceLockAcquired
    /\ LET active == interactive.active_requests + 1
       IN  interactive' =
               [interactive EXCEPT
                   !.lock = c,
                   !.total_requests = @ + 1,
                   !.active_requests = active,
                   !.max_concurrent = IF active > @ THEN active ELSE @,
                   !.calls[c].pc = "body"]
    /\ resp' = NoResp
    /\ UNCHANGED <<active_jobs, job_lock, thread, disk, request, models>>

\* lines 895-896 and 1070-1071: try: return _run_inference..._internal()
CallBody(c, stage, mask) ==
    /\ CallAt(c, "body")
    /\ interactive' =
           [interactive EXCEPT
               !.calls[c].pc = "finally",
               !.calls[c].mask = IF stage = "ok" /\ ~NotInitialized
                                 THEN mask ELSE NoMask,
               !.calls[c].response =
                   InferenceInternal(interactive.calls[c].kind, stage, mask)]
    /\ resp' = NoResp
    /\ UNCHANGED <<active_jobs, job_lock, thread, disk, request, models>>

\* lines 897-898 and 1072-1073: finally: active_requests -= 1, then the with
\* block releases inference_lock and the response goes to the client.
CallReturns(c) ==
    /\ CallAt(c, "finally")
    /\ interactive' =
           [interactive EXCEPT
               !.lock = IF @ = c THEN 0 ELSE @,
               !.active_requests = @ - 1,
               !.calls = [x \in Calls \ {c} |-> interactive.calls[x]]]
    /\ resp' = [op |-> interactive.calls[c].kind, job |-> "",
                code |-> interactive.calls[c].response.code,
                body |-> interactive.calls[c].response.body]
    /\ UNCHANGED <<active_jobs, job_lock, thread, disk, request, models>>

\* The server serves requests after its start-up load of SegFormer, which
\* may have failed (line 2990).
InitInteractive ==
    /\ active_jobs = <<>>
    /\ job_lock = Free
    /\ thread = <<>>
    /\ disk = [j \in JobIds |-> NoFile]
    /\ request = NoRequest
    /\ resp = NoResp
    /\ models \in {load_ai_model(NoModels, o, "cuda") : o \in {"ok", "model_error"}}
    /\ interactive = NoInteractive

NextInteractive ==
    \/ \E kind \in CallKinds : CallArrives(kind)
    \/ \E c \in Calls : CallEnters(c)
    \/ \E c \in Calls, stage \in CallStages, mask \in Masks :
           CallBody(c, stage, mask)
    \/ \E c \in Calls : CallReturns(c)

InteractiveSpec == InitInteractive /\ [][NextInteractive]_vars

\* ---------------------------------------------------------- analyze_motion
\* The largest number of motion samples and the largest motion score explored.
MaxSamples == 5
MaxMotion == 2

\* lines 1897 and 1996: every 5th frame is sampled
sample_interval == 5

\* lines 1900-1911: motion_scores holds one score per sampled frame but the
\* first, so its i-th item (from 1) is for frame i * sample_interval.
SampleFrame(i) == i * sample_interval

\* The inputs of the segment detection: the motion scores, motion_threshold
\* and min_segment_duration of the request (lines 1854-1855) and the fps of
\* the result document (line 1878); fps is 0 when the container gave none.
MotionRequests ==
    UNION {[scores : [1..n -> 0..MaxMotion], motion_threshold : 1..MaxMotion,
            fps : {0, 5, 10}, min_segment_duration : 0..2] :
               n \in 0..MaxSamples}

StillAtThreshold(motion, motion_threshold) == motion <= motion_threshold

\* lines 1934 and 2020: if motion < motion_threshold
Still(motion, motion_threshold) == motion < motion_threshold

\* lines 1940-1941 and 1954-1955: duration = (segment_end - segment_start)
\* / fps; if duration >= min_segment_duration.  Called with fps > 0 only.
LongEnough(segment_start, segment_end, fps, min_segment_duration) ==
    segment_end - segment_start >= min_segment_duration * fps

\* lines 1930-1949: the loop over motion_scores from item i on.  segment_start
\* is <<>> for None; failed records the ZeroDivisionError of a division by
\* fps = 0.  Of a segment only start and end are kept (duration, start_time
\* and end_time are computed from them).
RECURSIVE ScanMotion(_, _, _)
ScanMotion(req, i, st) ==
    IF i > Len(req.scores) \/ st.failed THEN st
    ELSE IF Still(req.scores[i], req.motion_threshold)
    THEN ScanMotion(req, i + 1,
             IF st.segment_start = <<>>
             THEN [st EXCEPT !.segment_start = <<SampleFrame(i)>>] ELSE st)
    ELSE IF st.segment_start = <<>> THEN ScanMotion(req, i + 1, st)
    ELSE IF req.fps = 0 THEN [st EXCEPT !.failed = TRUE]
    ELSE ScanMotion(req, i + 1,
             [segment_start |-> <<>>, failed |-> FALSE,
              segments |->
                  IF LongEnough(st.segment_start[1], SampleFrame(i), req.fps,
                                req.min_segment_duration)
                  THEN Append(st.segments, [start |-> st.segment_start[1],
                                            end |-> SampleFrame(i)])
                  ELSE st.segments])

\* lines 1927-1962 and 2015-2035: the segments of the response; the segment
\* still open after the loop ends at the last sample (lines 1952-1962).
DetectSegments(req) ==
    LET st == ScanMotion(req, 1, [segment_start |-> <<>>, failed |-> FALSE,
                                  segments |-> <<>>])
        segment_end == SampleFrame(Len(req.scores))
    IN  IF st.failed THEN st
        ELSE IF st.segment_start = <<>> THEN st
        ELSE IF req.fps = 0 THEN [st EXCEPT !.failed = TRUE]
        ELSE IF LongEnough(st.segment_start[1], segment_end, req.fps,
                           req.min_segment_duration)
        THEN [st EXCEPT !.segments =
                 Append(@, [start |-> st.segment_start[1],
                            end |-> segment_end])]
        ELSE st

\* POST /api/inference/analyze-motion, lines 1850-2039, from the sampled
\* scores on: the segments, or the error answer of the except clause.
analyze_motion ==
    /\ resp = NoResp
    /\ LET st == DetectSegments(request)
       IN  resp' = IF st.failed
                   THEN [op |-> "analyze_motion", job |-> "", code |-> 500,
                         body |-> <<>>]
                   ELSE [op |-> "analyze_motion", job |-> "", code |-> 200,
                         body |-> st.segments]
    /\ UNCHANGED <<active_jobs, job_lock, thread, disk, request, models, interactive>>

InitMotion ==
    /\ active_jobs = <<>>
    /\ job_lock = Free
    /\ thread = <<>>
    /\ disk = [j \in JobIds |-> NoFile]
    /\ request \in MotionRequests
    /\ resp = NoResp
    /\ models = LoadedModels
    /\ interactive = NoInteractive

NextMotion == analyze_motion

MotionSpec == InitMotion /\ [][NextMotion]_vars

\* ------------------------------------------- extract_representative_frames
\* The number of frame numbers a result document and a segment range over,
\* and the largest frames_per_segment explored.
MaxDocFrames == 3
MaxPerSegment == 2

\* An item of the document's results for one frame number: missing, or the
\* confidences of its detections in tenths.
DocItems == {[present |-> FALSE, detections |-> <<>>]}
            \cup {[present |-> TRUE, detections |-> d] :
                     d \in {<<3>>, <<7>>, <<3, 3>>}}

SegmentsOver(n) == {[start |-> a, end |-> b] : a \in 0..n, b \in 0..n} \cap
                   {sg \in [start : 0..n, end : 0..n] : sg.start <= sg.end}

\* The request (lines 2048-2052) and the document it names (lines
\* 2071-2075): one or two segments, frames_per_segment, min_confidence in
\* tenths, and the results by frame number.
ExtractRequests ==
    [results : [0..(MaxDocFrames - 1) -> DocItems],
     segments : {<<a>> : a \in SegmentsOver(MaxDocFrames)}
                \cup {<<a, b>> : a \in SegmentsOver(MaxDocFrames),
                                 b \in SegmentsOver(MaxDocFrames)},
     frames_per_segment : 0..MaxPerSegment,
     min_confidence : {3, 5}]

\* line 2082: the detections d with d.get('confidence', 0) >= min_confidence
RECURSIVE Qualifying(_, _)
Qualifying(detections, min_confidence) ==
    IF detections = <<>> THEN 0
    ELSE (IF Head(detections) >= min_confidence THEN 1 ELSE 0)
         + Qualifying(Tail(detections), min_confidence)

\* lines 2080-2084: frame_detection_counts[frame_num]
DetectionCount(req, frame_num) ==
    Qualifying(req.results[frame_num].detections, req.min_confidence)

\* lines 2094-2097: segment_frames, the document's frames in [start, end] in
\* ascending order, each with its count
RECURSIVE SegmentFrames(_, _, _)
SegmentFrames(req, frame_num, end) ==
    IF frame_num > end THEN <<>>
    ELSE (IF frame_num \in DOMAIN req.results /\ req.results[frame_num].present
          THEN <<[frame_number |-> frame_num,
                  detection_count |-> DetectionCount(req, frame_num)]>>
          ELSE <<>>)
         \o SegmentFrames(req, frame_num + 1, end)

FewerFirst(a, b) == a.detection_count < b.detection_count

\* line 2100: sort(key=lambda x: -x[1]): a goes before b when it has more
\* detections
MoreFirst(a, b) == a.detection_count > b.detection_count

\* list.sort is stable: x is put behind every item that does not go after it.
RECURSIVE InsertMore(_, _)
InsertMore(sorted, x) ==
    IF sorted = <<>> THEN <<x>>
    ELSE IF MoreFirst(x, Head(sorted)) THEN <<x>> \o sorted
    ELSE <<Head(sorted)>> \o InsertMore(Tail(sorted), x)

RECURSIVE SortByCount(_)
SortByCount(frames) ==
    IF frames = <<>> THEN <<>>
    ELSE InsertMore(SortByCount(SubSeq(frames, 1, Len(frames) - 1)),
                    frames[Len(frames)])

\* line 2101: segment_frames[:frames_per_segment]
Top(frames, frames_per_segment) ==
    SubSeq(frames, 1, IF frames_per_segment < Len(frames)
                      THEN frames_per_segment ELSE Len(frames))

\* lines 2103-2111: the top frames with det_count > 0 become entries
RECURSIVE Entries(_, _)
Entries(seg_idx, top_frames) ==
    IF top_frames = <<>> THEN <<>>
    ELSE (IF Head(top_frames).detection_count > 0
          THEN <<[segment_index |-> seg_idx,
                  frame_number |-> Head(top_frames).frame_number,
                  detection_count |-> Head(top_frames).detection_count]>>
          ELSE <<>>)
         \o Entries(seg_idx, Tail(top_frames))

\* lines 2089-2111: the loop over the segments; seg_idx counts from 0
RECURSIVE Representatives(_, _)
Representatives(req, k) ==
    IF k > Len(req.segments) THEN <<>>
    ELSE Entries(k - 1,
                 Top(SortByCount(SegmentFrames(req, req.segments[k].start,
                                               req.segments[k].end)),
                     req.frames_per_segment))
         \o Representatives(req, k + 1)

\* line 2114: representative_frames.sort(key=lambda x: x['frame_number'])
RECURSIVE InsertByFrame(_, _)
InsertByFrame(sorted, x) ==
    IF sorted = <<>> THEN <<x>>
    ELSE IF x.frame_number < Head(sorted).frame_number THEN <<x>> \o sorted
    ELSE <<Head(sorted)>> \o InsertByFrame(Tail(sorted), x)

RECURSIVE SortByFrame(_)
SortByFrame(entries) ==
    IF entries = <<>> THEN <<>>
    ELSE InsertByFrame(SortByFrame(SubSeq(entries, 1, Len(entries) - 1)),
                       entries[Len(entries)])

\* POST /api/inference/extract-representatives, lines 2044-2127, for a
\* request that names segments and an existing result document.
extract_representative_frames ==
    /\ resp = NoResp
    /\ resp' = [op |-> "extract_representatives", job |-> "", code |-> 200,
                body |-> SortByFrame(Representatives(request, 1))]
    /\ UNCHANGED <<active_jobs, job_lock, thread, disk, request, models, interactive>>

InitExtract ==
    /\ active_jobs = <<>>
    /\ job_lock = Free
    /\ thread = <<>>
    /\ disk = [j \in JobIds |-> NoFile]
    /\ request \in ExtractRequests
    /\ resp = NoResp
    /\ models = LoadedModels
    /\ interactive = NoInteractive

NextExtract == extract_representative_frames

ExtractSpec == InitExtract /\ [][NextExtract]_vars

\* ======================================================== properties
JobOf(j) == active_jobs[j]

\* The runner thread of j has returned.
RunnerFinished(j) == thread[j].pc = "done"

\* C1: once a job's status is completed, cancelled or failed (and the step
\* that made it so has left its job_lock block), no later step changes
\* any field of the job record.
TerminalAbsorbing ==
    [][\A j \in DOMAIN active_jobs :
          (job_lock # j /\ JobOf(j).status \in Terminal)
              => active_jobs'[j] = active_jobs[j]]_vars

\* C2: a job whose cancel request was accepted ends as cancelled: once its
\* runner has returned (nothing but a runner moves a job to cancelled), a
\* job with cancel_requested set has status cancelled.
CancelEndsCancelled ==
    \A j \in DOMAIN active_jobs :
        (RunnerFinished(j) /\ JobOf(j).cancel_requested)
            => JobOf(j).status = "cancelled"

\* C3: a job whose cancel request was accepted has no result document on
\* disk, whatever the interleaving of the cancel with the runner.
CancelledJobWritesNoResult ==
    \A j \in DOMAIN active_jobs :
        JobOf(j).cancel_requested => ~disk[j].exists

\* C4: progress and current_frame of a job never decrease from one state
\* to the next, so no two successive polls see either of them go down.
ProgressMonotone ==
    [][\A j \in DOMAIN active_jobs :
          /\ FracLeq(JobOf(j).progress, active_jobs'[j].progress)
          /\ JobOf(j).current_frame <= active_jobs'[j].current_frame]_vars

\* C5: a completed job whose runner decoded N frames has written a result
\* document of exactly N entries, the i-th (0-based) with frame_number i.
ResultDocumentComplete ==
    \A j \in DOMAIN thread :
        JobOf(j).status = "completed"
            => /\ disk[j].exists /\ disk[j].complete
               /\ Len(disk[j].results) = thread[j].pos
               /\ \A i \in 1..Len(disk[j].results) : disk[j].results[i] = i - 1
               /\ disk[j].total_frames = thread[j].pos

\* C5 witness: a completed job whose document lists several frames.
ResultDocumentCompleteWitness ==
    \E j \in DOMAIN thread :
        /\ JobOf(j).status = "completed"
        /\ thread[j].pos >= 3
        /\ Len(disk[j].results) >= 3

\* C6: a cancel request for a completed job is answered 400 'already
\* completed', one for an unknown id 404, and neither changes the registry.
CancelRejectedLeavesRegistry ==
    [][\A j \in JobIds :
          (resp'.op = "cancel" /\ resp'.job = j)
              => /\ ~Known(j)
                      => /\ resp'.code = 404
                         /\ active_jobs' = active_jobs
                 /\ (Known(j) /\ JobOf(j).status = "completed")
                      => /\ resp'.code = 400
                         /\ resp'.body = <<"Job already completed">>
                         /\ active_jobs' = active_jobs]_vars

\* C6 witness: a cancel request has just been refused for a completed job.
CancelRejectedWitness ==
    /\ resp.op = "cancel" /\ resp.code = 400
    /\ Known(resp.job) /\ JobOf(resp.job).status = "completed"
    /\ ~JobOf(resp.job).cancel_requested

\* C7: a status poll of a known job returns the record's fields as they
\* stand between two job_lock blocks: the tuple equals the record, and it
\* never pairs current_frame of one runner update with progress of another
\* (running: progress = current_frame / total_frames * 100; completed:
\* progress = 100).  A poll of an unknown id returns 404.  Neither changes
\* the registry.
SnapshotConsistent(snap) ==
    /\ (snap.status # "completed" /\ snap.current_frame > 0)
          => FracEq(snap.progress, Frac(snap.current_frame * 100, snap.total_frames))
    /\ snap.status = "completed" => FracEq(snap.progress, Frac(100, 1))

StatusPollAtomic ==
    [][\A j \in JobIds :
          (resp'.op = "status" /\ resp'.job = j)
              => /\ UNCHANGED <<active_jobs, thread, disk>>
                 /\ IF Known(j)
                    THEN /\ resp'.code = 200
                         /\ resp'.body = <<Snapshot(JobOf(j))>>
                         /\ SnapshotConsistent(resp'.body[1])
                    ELSE resp'.code = 404]_vars

\* C7 witness: a poll has returned a snapshot of a job in mid-run.
StatusPollWitness ==
    /\ resp.op = "status" /\ resp.code = 200
    /\ resp.body[1].status = "running"
    /\ resp.body[1].current_frame = 2
    /\ resp.body[1].total_frames = 3

\* C8: the preview endpoint answers 404 for a known job while latest_frame
\* is absent and otherwise returns the stored latest_frame; between job_lock
\* blocks latest_frame is present exactly when the runner has stored a
\* preview (first processed frame onwards); once present it is never absent
\* again and never replaced by the overlay of an earlier frame.
PreviewLatest ==
    [][/\ \A j \in DOMAIN active_jobs :
            (resp'.op = "preview" /\ resp'.job = j)
                => /\ UNCHANGED <<active_jobs, thread, disk>>
                   /\ IF JobOf(j).latest_frame = <<>>
                      THEN resp'.code = 404
                      ELSE resp'.code = 200 /\ resp'.body = JobOf(j).latest_frame
       /\ \A j \in DOMAIN active_jobs :
            /\ JobOf(j).latest_frame # <<>>
                  => /\ active_jobs'[j].latest_frame # <<>>
                     /\ active_jobs'[j].latest_frame[1] >= JobOf(j).latest_frame[1]
            /\ job_lock' # j
                  => (active_jobs'[j].latest_frame # <<>>
                          <=> active_jobs'[j].current_frame > 0)]_vars

\* C8 witness: the preview endpoint has returned a job's second preview,
\* the overlay of frame 10.
PreviewLatestWitness ==
    /\ resp.op = "preview" /\ resp.code = 200
    /\ resp.body = <<preview_interval>>
    /\ JobOf(resp.job).latest_frame = <<preview_interval>>

\* C9: a frame request on an opened video with frame_number < 0 or
\* frame_number >= total_frames fails as out of range with no seek and the
\* handle released; a request with 0 <= frame_number < total_frames is
\* never rejected as out of range.
FrameRangeValidated ==
    (resp.op = "frame" /\ request.stage = "opened")
        => LET r == resp.body[1]
               n == request.frame_number
           IN IF n < 0 \/ n >= request.total_frames
              THEN /\ r.code = 400 /\ r.error = "out of range"
                   /\ r.seeks = <<>> /\ r.frame = <<>>
                   /\ r.opened /\ r.released
              ELSE r.error # "out of range" /\ Len(r.seeks) >= 1

\* C9 witness: the request for frame total_frames of a non-empty video has
\* been rejected as out of range.
FrameRangeWitness ==
    /\ resp.op = "frame" /\ request.stage = "opened"
    /\ request.total_frames > 0
    /\ request.frame_number = request.total_frames
    /\ resp.body[1].error = "out of range"

\* C10: when the requested in-range frame i does not decode and i < 200,
\* the indices 10, 30, 50, 100, 150, 200 are tried in that order and the
\* first that decodes is returned; the request fails only if none decodes;
\* when i >= 200 nothing else is tried and the request fails.
FallbackRecovery ==
    (/\ resp.op = "frame" /\ request.stage = "opened"
     /\ 0 <= request.frame_number
     /\ request.frame_number < request.total_frames
     /\ request.frame_number \notin request.decodable)
        => LET r == resp.body[1]
               n == request.frame_number
               order == <<10, 30, 50, 100, 150, 200>>
               good == {k \in 1..Len(order) : order[k] \in request.decodable}
           IN IF n >= 200
              THEN r.code = 400 /\ r.frame = <<>> /\ r.seeks = <<n>>
              ELSE IF good = {}
              THEN r.code = 400 /\ r.frame = <<>> /\ r.seeks = <<n>> \o order
              ELSE LET k == CHOOSE k \in good : \A m \in good : k <= m
                   IN /\ r.code = 200 /\ r.frame = <<order[k]>>
                      /\ r.seeks = <<n>> \o SubSeq(order, 1, k)

\* C10 witness: frame 0 did not decode, 10 did not either, and the request
\* returned frame 30.
FallbackRecoveryWitness ==
    /\ resp.op = "frame" /\ request.stage = "opened"
    /\ request.frame_number = 0
    /\ resp.code = 200
    /\ resp.body[1].frame = <<30>>
    /\ resp.body[1].seeks = <<0, 10, 30>>

\* C11: a call of an initialization endpoint whose model is already
\* initialized answers "already initialized" and does not run the loader:
\* the model, processor, device, flags and the loader-run count are unchanged.
InitializationIdempotent ==
    [][/\ (resp'.op = "initialize_ai" /\ models.ai_initialized)
           => /\ resp'.code = 200
              /\ resp'.body = <<"AI model already initialized">>
                              \o DeviceStr(models)
              /\ models' = models
       /\ (resp'.op = "initialize_yolo" /\ models.yolo_initialized)
           => /\ resp'.code = 200
              /\ resp'.body = <<"YOLO model already initialized">>
              /\ models' = models]_vars

InitializationIdempotentWitness ==
    /\ models.ai_initialized
    /\ models.yolo_initialized
    /\ resp.op = "initialize_ai"
    /\ resp.body[1] = "AI model already initialized"
    /\ models.loads >= 2

\* C12: a box inference on a crop predicted as background only returns no
\* detection: its response carries no dominant class name, no ratio and no
\* polygon; on a crop with a non-background pixel the dominant class is the
\* non-background class with the most pixels.
DominantClassOmission ==
    \A c \in Calls :
        LET call == interactive.calls[c]
            body == call.response.body
        IN  (call.pc = "finally" /\ call.kind = "inference_box"
               /\ call.response.code = 200)
            => /\ NonBackground(call.mask) = {}
                   => /\ body.polygon = <<>>
                      /\ body.dominant_class_name = ""
                      /\ body.dominant_class_ratio = <<>>
               /\ NonBackground(call.mask) # {}
                   => /\ body.dominant_class \in NonBackground(call.mask)
                      /\ \A o \in NonBackground(call.mask) :
                             call.mask[o] <= call.mask[body.dominant_class]

\* The requests that are inside inference_lock's block.
InsideInference == {c \in Calls : interactive.calls[c].pc \in {"body", "finally"}}

\* C19: at most one single-frame inference request is inside its inference
\* body at any time, active_requests is the number of requests inside (0 or
\* 1), max_concurrent is at most 1, and active_requests is back at 0 when a
\* request returns, whatever its response.
InteractiveSerialized ==
    /\ Cardinality(InsideInference) <= 1
    /\ interactive.active_requests = Cardinality(InsideInference)
    /\ interactive.max_concurrent <= 1
    /\ InsideInference = {} => interactive.lock = 0
    /\ resp.op \in CallKinds => interactive.active_requests = 0

InteractiveSerializedWitness ==
    /\ resp.op = "inference_box"
    /\ resp.code = 500
    /\ interactive.total_requests >= 2
    /\ interactive.max_concurrent = 1
    /\ interactive.active_requests = 0
    /\ \E c \in Calls : interactive.calls[c].pc = "lock"

\* C13: in every state and for every job, current_frame <= total_frames.
CurrentFrameBounded ==
    \A j \in DOMAIN active_jobs :
        JobOf(j).current_frame <= JobOf(j).total_frames

\* C14: whenever the runner is outside its job_lock blocks, progress is
\* current_frame / total_frames * 100 to within one percentage point, the
\* completed state included.
ProgressTracksFrames ==
    \A j \in DOMAIN active_jobs :
        LET p == JobOf(j).progress
            cf == JobOf(j).current_frame
            tf == JobOf(j).total_frames
            diff == p[1] * tf - cf * 100 * p[2]
        IN  (job_lock # j /\ tf > 0)
                => /\ diff <= p[2] * tf
                   /\ -diff <= p[2] * tf

\* C15: a job on a video that opens and whose container reports 0 frames
\* fails: its runner, unless a cancel request came in, ends with the job
\* failed, the job is never completed, no result document is written, and no
\* division by the frame count is attempted.
EmptyVideoFailsFast ==
    \A j \in DOMAIN thread :
        (thread[j].video.opens /\ thread[j].video.count = 0)
            => /\ ~disk[j].exists
               /\ JobOf(j).status # "completed"
               /\ JobOf(j).error # "division by zero"
               /\ (RunnerFinished(j) /\ ~JobOf(j).cancel_requested)
                      => JobOf(j).status = "failed"

\* C16: a submission never changes a job record the registry already holds
\* and never gives one record a second runner thread.
JobCreationChecksCollision ==
    [][resp'.op = "submit"
         => /\ \A j \in DOMAIN active_jobs : active_jobs'[j] = active_jobs[j]
            /\ \A t1, t2 \in DOMAIN thread' :
                   t1 # t2 => thread'[t1].job_id # thread'[t2].job_id]_vars

\* C17: when the runner of a job that has a temporary input video has
\* returned and left the job completed, failed or cancelled, the temporary
\* video is gone.
TempVideoCleanedUp ==
    \A j \in DOMAIN thread :
        (RunnerFinished(j) /\ JobOf(j).temp_video_path # ""
            /\ JobOf(j).status \in Terminal)
                => ~disk[j].temp

\* C18: a failed job has no result document at its output path, whole or
\* partial, and a document that exists is whole.
NoPartialResultOnFailure ==
    \A j \in DOMAIN active_jobs :
        /\ JobOf(j).status = "failed" => ~disk[j].exists
        /\ disk[j].exists => disk[j].complete

\* A step in which runner thread j opens or releases the video handle,
\* decodes a frame, runs the model on a frame, or writes or removes a file.
SlowStep(j) ==
    \/ thread'[j].cap # thread[j].cap
    \/ thread'[j].pos # thread[j].pos
    \/ thread[j].pc = "infer" /\ thread'[j].pc # "infer"
    \/ disk'[job_id(j)] # disk[job_id(j)]

\* C20: no runner thread takes such a step while it holds job_lock.
LockOnlyForMetadata ==
    [][\A j \in DOMAIN thread : job_lock = j => ~SlowStep(j)]_vars

\* C23: a job's status changes only along running -> completed, running ->
\* cancelled, running -> failed, running -> cancelling and cancelling ->
\* cancelled; a cancelling job never becomes completed or failed.
StatusFollowsEdges ==
    [][LET edges == {<<"running", "completed">>, <<"running", "cancelled">>,
                     <<"running", "failed">>, <<"running", "cancelling">>,
                     <<"cancelling", "cancelled">>}
       IN  \A j \in DOMAIN active_jobs :
              \/ active_jobs'[j].status = JobOf(j).status
              \/ <<JobOf(j).status, active_jobs'[j].status>> \in edges]_vars

\* C24: a job whose runner could not decode every frame the container
\* reports, or whose model call failed on a frame, is never completed: a
\* completed job's document covers every frame of the video.
FrameErrorsFatal ==
    \A j \in DOMAIN thread :
        JobOf(j).status = "completed"
            => /\ thread[j].pos >= thread[j].video.count
               /\ disk[j].total_frames >= thread[j].video.count
               /\ thread[j].exc = ""

\* C25: the registry update after a frame whose 0-based index is a multiple
\* of preview_interval stores the overlay of that very frame in latest_frame,
\* whatever the model type and the number of detections, and rendering it
\* never fails the job; the update after any other frame leaves latest_frame
\* unchanged.
PreviewCadence ==
    [][\A j \in DOMAIN thread :
          /\ (thread[j].pc = "update2" /\ thread'[j].pc = "check")
                => LET index == thread[j].frame_count - 1
                   IN  IF index % preview_interval = 0
                       THEN active_jobs'[j].latest_frame = <<index>>
                       ELSE active_jobs'[j].latest_frame = JobOf(j).latest_frame
          /\ thread'[j].exc # "name 'overlay' is not defined"]_vars

\* C28: when the runner of a job that opened its video has returned and the
\* job is completed, cancelled or failed, the video handle has been released.
VideoHandleReleased ==
    \A j \in DOMAIN thread :
        (RunnerFinished(j) /\ JobOf(j).status \in Terminal)
            => thread[j].cap # "open"

\* C29: in every state a completed job's result document is on disk and
\* whole; whenever a status poll reports completed, the record's result_file
\* is set as well.
ResultBeforeCompleted ==
    /\ \A j \in DOMAIN active_jobs :
          JobOf(j).status = "completed"
              => disk[j].exists /\ disk[j].complete
    /\ (resp.op = "status" /\ resp.code = 200
          /\ resp.body[1].status = "completed")
              => /\ JobOf(resp.job).result_file = "inference_results.json"
                 /\ disk[resp.job].exists /\ disk[resp.job].complete

\* C29 witness: a poll has reported completed for a job of several frames.
ResultBeforeCompletedWitness ==
    /\ resp.op = "status" /\ resp.code = 200
    /\ resp.body[1].status = "completed"
    /\ Len(disk[resp.job].results) >= 2
    /\ JobOf(resp.job).result_file # ""

\* C30: no job stays running or cancelling for ever: once its runner has
\* returned, after which only cancel requests touch the record, the job is
\* completed, cancelled or failed, whatever cancel requests come in.
JobTerminates ==
    \A j \in DOMAIN thread :
        RunnerFinished(j) => JobOf(j).status \in Terminal

\* The maximal runs <<a, b>> of consecutive samples a..b of the request that
\* are all below the threshold.
StillRuns ==
    LET n == Len(request.scores)
        low(i) == request.scores[i] < request.motion_threshold
    IN  {r \in (1..n) \X (1..n) :
            /\ r[1] <= r[2]
            /\ \A k \in r[1]..r[2] : low(k)
            /\ r[1] = 1 \/ ~low(r[1] - 1)
            /\ r[2] = n \/ ~low(r[2] + 1)}

\* The segment of a run: from its first sample to the sample that ends it,
\* or to the last sample when the run lasts to the end.
RunSegment(r) ==
    [start |-> SampleFrame(r[1]),
     end |-> IF r[2] < Len(request.scores) THEN SampleFrame(r[2] + 1)
             ELSE SampleFrame(r[2])]

\* C21: the segments returned for a sequence of motion scores are exactly
\* the maximal runs of samples below motion_threshold whose (end - start) /
\* fps is at least min_segment_duration, each once, in ascending order and
\* disjoint, and no sample at or above the threshold lies in [start, end) of
\* a segment.
MotionSegmentsExact ==
    (resp.op = "analyze_motion" /\ resp.code = 200)
        => LET segs == resp.body
               n == Len(request.scores)
               expected == {RunSegment(r) : r \in
                               {r \in StillRuns :
                                   (RunSegment(r).end - RunSegment(r).start)
                                       >= request.min_segment_duration
                                              * request.fps}}
           IN  /\ {segs[k] : k \in 1..Len(segs)} = expected
               /\ Len(segs) = Cardinality(expected)
               /\ \A k \in 1..(Len(segs) - 1) : segs[k].end <= segs[k + 1].start
               /\ \A k \in 1..Len(segs) : \A i \in 1..n :
                      request.scores[i] >= request.motion_threshold
                          => ~(segs[k].start <= SampleFrame(i)
                                 /\ SampleFrame(i) < segs[k].end)

\* C21 witness: two segments were returned and a run too short was left out.
MotionSegmentsWitness ==
    /\ resp.op = "analyze_motion" /\ resp.code = 200
    /\ Len(resp.body) = 2
    /\ Cardinality(StillRuns) = 3
    /\ request.min_segment_duration > 0

\* The number of detections of frame f of the requested document whose
\* confidence is at least min_confidence.
QualifyingIn(f) ==
    Cardinality({i \in 1..Len(request.results[f].detections) :
                    request.results[f].detections[i] >= request.min_confidence})

\* C22: for each segment of the request the response holds at most
\* frames_per_segment frames, each once, each a frame of the document within
\* [start, end] with its number of qualifying detections, and no frame of
\* the segment that was left out has more qualifying detections than one
\* that was returned.
RepresentativesRanked ==
    (resp.op = "extract_representatives" /\ resp.code = 200)
        => \A k \in 1..Len(request.segments) :
             LET sg == request.segments[k]
                 chosen == {i \in 1..Len(resp.body) :
                               resp.body[i].segment_index = k - 1}
                 frames == {resp.body[i].frame_number : i \in chosen}
                 inside == {f \in DOMAIN request.results :
                               /\ request.results[f].present
                               /\ sg.start <= f /\ f <= sg.end}
             IN  /\ Cardinality(chosen) <= request.frames_per_segment
                 /\ Cardinality(frames) = Cardinality(chosen)
                 /\ frames \subseteq inside
                 /\ \A i \in chosen :
                        resp.body[i].detection_count
                            = QualifyingIn(resp.body[i].frame_number)
                 /\ \A f \in inside \ frames : \A r \in frames :
                        QualifyingIn(f) <= QualifyingIn(r)

\* C22 witness: of a segment with three frames of the document one frame
\* was returned and a frame with qualifying detections was left out.
RepresentativesWitness ==
    /\ resp.op = "extract_representatives" /\ resp.code = 200
    /\ request.frames_per_segment = 1
    /\ Len(request.segments) = 2
    /\ request.segments[1] = [start |-> 0, end |-> 2]
    /\ \A f \in 0..2 : request.results[f].present
    /\ QualifyingIn(0) = 1 /\ QualifyingIn(1) = 2
    /\ \E i \in 1..Len(resp.body) :
          resp.body[i].segment_index = 0 /\ resp.body[i].frame_number = 1

\* C26: a job submission made while the model it asks for is not
\* initialized is answered with the not-initialized error (400), registers
\* no job and leaves the model globals as they were.
NotInitializedRejected ==
    [][\A j \in JobIds, v \in ShortVideos, m \in ModelTypes,
          o \in YoloLoadOutcomes, d \in Devices :
           (ModelMissing(m) /\ post_inference(j, v, m, o, d))
               => /\ resp'.code = 400
                  /\ active_jobs' = active_jobs
                  /\ models' = models]_vars

\* Runner thread j has read a frame and is in the part of the loop body that
\* calls the model (yolo_model(...), line 2359, or segformer_model(**inputs),
\* line 2444); the runner takes neither job_lock nor inference_lock there.
InModelCall(j) == AtPc(j, "infer")

\* C27: no two job runners are in a call of the same model at the same
\* time.
EngineExclusive ==
    \A j \in DOMAIN thread, k \in DOMAIN thread :
        (j # k /\ InModelCall(j) /\ InModelCall(k))
            => thread[j].model_type # thread[k].model_type

====
